---- MODULE Spec2Model ----
(***************************************************************************)
(* Model of the offer search backend (src/src/handlers.rs, models.rs,      *)
(* db.rs): a RocksDB store keyed by the 16 bytes of the offer id, the      *)
(* ingestion handler create_offers, the wipe handler cleanup_data and the  *)
(* search handler get_offers / query_offers.                               *)
(***************************************************************************)
EXTENDS Integers, Sequences, FiniteSets, TLC

VARIABLES
    store,      \* the RocksDB default column family: key bytes -> value (JSON)
    cpc,        \* per create request: "idle" | "run" | "done"
    cBatch,     \* per create request: the payload ([has |-> .., offers |-> ..])
    cIdx,       \* per create request: offers of the batch already put
    cResp,      \* per create request: the HTTP status returned ("" while none)
    cPre,       \* per create request: the store contents when the request began
    wiped,      \* TRUE from a cleanup_data answered 200 until the next put
    spc,        \* search request: "idle" | "scan" | "done"
    sParams,    \* search request: the raw query parameters
    snap,       \* search request: the view pinned by the RocksDB iterator
    sIdx,       \* search request: records of the view already visited
    sOffers,    \* search request: the Vec `offers` (filtered, then sorted)
    sAfterWipe, \* search request: it started while `wiped` held
    sResp       \* search request: the response

vars == <<store, cpc, cBatch, cIdx, cResp, cPre, wiped,
          spc, sParams, snap, sIdx, sOffers, sAfterWipe, sResp>>

createVars == <<cpc, cBatch, cIdx, cResp, cPre>>
searchVars == <<spc, sParams, snap, sIdx, sOffers, sAfterWipe, sResp>>

-----------------------------------------------------------------------------
(* Bounds of the model *)

\* longest ingestion batch a create request carries
MaxBatch == 2

-----------------------------------------------------------------------------
(* Bytes, keys and their order *)

\* a 128-bit Uuid as its 16 bytes (Uuid::as_bytes); only the first and the
\* last byte vary in the model
Uuid(first, last) == <<first, 0, 0, 0, 0, 0, 0, 0, 0, 0, 0, 0, 0, 0, 0, last>>

IdA == Uuid(0, 1)
IdB == Uuid(127, 2)
IdC == Uuid(255, 3)
IdD == Uuid(200, 4)
IDs == {IdA, IdB, IdC, IdD}

Min(a, b) == IF a <= b THEN a ELSE b

\* bytewise lexicographic order on byte strings (RocksDB's default
\* BytewiseComparator, and Ord for Uuid on equal lengths): a < b
BytesLess(a, b) ==
    \/ \E i \in 1..Min(Len(a), Len(b)) :
          /\ a[i] < b[i]
          /\ \A j \in 1..(i - 1) : a[j] = b[j]
    \/ /\ Len(a) < Len(b)
       /\ \A j \in 1..Len(a) : a[j] = b[j]

BytesLeq(a, b) == a = b \/ BytesLess(a, b)

\* the elements of a finite set of byte strings in ascending bytewise order
RECURSIVE SortedKeys(_)
SortedKeys(S) ==
    IF S = {} THEN <<>>
    ELSE LET m == CHOOSE k \in S : \A o \in S : BytesLeq(k, o)
         IN  <<m>> \o SortedKeys(S \ {m})

-----------------------------------------------------------------------------
(* Offers and their stored form *)

\* standard base64 of at most three bytes, as a sequence of sextets with 64
\* standing for the padding character '='
B64Group(bs) ==
    LET n  == Len(bs)
        b1 == bs[1]
        b2 == IF n >= 2 THEN bs[2] ELSE 0
        b3 == IF n >= 3 THEN bs[3] ELSE 0
    IN  << b1 \div 4,
           (b1 % 4) * 16 + (b2 \div 16),
           IF n >= 2 THEN (b2 % 16) * 4 + (b3 \div 64) ELSE 64,
           IF n >= 3 THEN b3 % 64 ELSE 64 >>

RECURSIVE Base64Encode(_)
Base64Encode(bs) ==
    IF Len(bs) = 0 THEN <<>>
    ELSE IF Len(bs) <= 3 THEN B64Group(bs)
    ELSE B64Group(SubSeq(bs, 1, 3)) \o Base64Encode(SubSeq(bs, 4, Len(bs)))

B64Ungroup(g) ==
    LET x3 == IF g[3] = 64 THEN 0 ELSE g[3]
        x4 == IF g[4] = 64 THEN 0 ELSE g[4]
        b1 == g[1] * 4 + (g[2] \div 16)
        b2 == (g[2] % 16) * 16 + (x3 \div 4)
        b3 == (x3 % 4) * 64 + x4
    IN  IF g[3] = 64 THEN <<b1>>
        ELSE IF g[4] = 64 THEN <<b1, b2>>
        ELSE <<b1, b2, b3>>

RECURSIVE Base64Decode(_)
Base64Decode(s) ==
    IF Len(s) = 0 THEN <<>>
    ELSE B64Ungroup(SubSeq(s, 1, 4)) \o Base64Decode(SubSeq(s, 5, Len(s)))

\* serde_json::to_vec(&offer): the fields in declaration order, data as base64
Serialize(o) ==
    << o.ID, Base64Encode(o.data), o.mostSpecificRegionID, o.startDate,
       o.endDate, o.numberSeats, o.price, o.carType, o.hasVollkasko,
       o.freeKilometers >>

\* serde_json::from_slice(&value)
Deserialize(v) ==
    [ ID |-> v[1], data |-> Base64Decode(v[2]), mostSpecificRegionID |-> v[3],
      startDate |-> v[4], endDate |-> v[5], numberSeats |-> v[6],
      price |-> v[7], carType |-> v[8], hasVollkasko |-> v[9],
      freeKilometers |-> v[10] ]

\* a key that also depends on a mutable field of the offer
KeyWithPrice(o) == o.ID \o <<o.price % 256>>

\* the store key of an offer: offer.ID.as_bytes()
KeyOf(o) == o.ID

-----------------------------------------------------------------------------
(* The store: RocksDB put, delete_range and iterator *)

EmptyStore == << >>

\* db.put(key, value): insert or overwrite
Put(s, k, v) == [x \in (DOMAIN s) \cup {k} |-> IF x = k THEN v ELSE s[x]]

\* db.delete_range_cf(cf, from, to): removes the keys in [from, to)
DeleteRange(s, from, to) ==
    LET keep == {k \in DOMAIN s : ~(BytesLeq(from, k) /\ BytesLess(k, to))}
    IN  [x \in keep |-> s[x]]

\* the offers a store holds, decoded
OffersIn(s) == {Deserialize(s[k]) : k \in DOMAIN s}

-----------------------------------------------------------------------------
(* Unsigned 32-bit arithmetic (u32), on four little-endian bytes so that it *)
(* keeps its width; numbers written in a request are below 2^31 in the model *)

U32(n) == << n % 256, (n \div 256) % 256, (n \div 65536) % 256,
             (n \div 16777216) % 256 >>

\* carry propagation over column sums; the last element is the carry out
RECURSIVE Normalize(_, _)
Normalize(cols, carry) ==
    IF Len(cols) = 0 THEN <<carry>>
    ELSE LET t == cols[1] + carry
         IN  <<t % 256>> \o Normalize(Tail(cols), t \div 256)

MulTerm(a, b, i, j) == IF i \in 1..4 /\ j \in 1..4 THEN a[i] * b[j] ELSE 0

\* a * b: the wrapped value and whether the exact product needs more than 32 bits
U32Mul(a, b) ==
    LET cols == [k \in 1..7 |-> MulTerm(a, b, 1, k) + MulTerm(a, b, 2, k - 1)
                              + MulTerm(a, b, 3, k - 2) + MulTerm(a, b, 4, k - 3)]
        full == Normalize(cols, 0)
    IN  [v |-> SubSeq(full, 1, 4), overflow |-> \E i \in 5..8 : full[i] # 0]

\* a + b
U32Add(a, b) ==
    LET full == Normalize([k \in 1..4 |-> a[k] + b[k]], 0)
    IN  [v |-> SubSeq(full, 1, 4), overflow |-> full[5] # 0]

U32Less(a, b) ==
    \E i \in 1..4 : a[i] < b[i] /\ \A j \in (i + 1)..4 : a[j] = b[j]

U32Leq(a, b) == a = b \/ U32Less(a, b)

\* a - b (two's complement: a + ~b + 1)
U32Sub(a, b) ==
    LET full == Normalize([k \in 1..4 |-> a[k] + (255 - b[k])], 1)
    IN  [v |-> SubSeq(full, 1, 4), overflow |-> U32Less(a, b)]

\* the number a u32 stands for (used only where it is known to be small)
U32ToNat(a) == a[1] + 256 * a[2] + 65536 * a[3] + 16777216 * a[4]

-----------------------------------------------------------------------------
(* Query parameters: HashMap<String, String> and their parsing *)

\* a parameter that is not in the map, one whose text is the decimal number n,
\* and one whose text is the non-numeric string s
Absent == [has |-> FALSE, num |-> FALSE, n |-> 0, s |-> ""]
Num(n) == [has |-> TRUE, num |-> TRUE, n |-> n, s |-> ""]
Txt(s) == [has |-> TRUE, num |-> FALSE, n |-> 0, s |-> s]

Some(x) == [some |-> TRUE, v |-> x]
None == [some |-> FALSE]

\* the text of a parameter, as a String (params.get(..).cloned(), as_str)
RawString(p) == IF p.num THEN ToString(p.n) ELSE p.s

\* str::parse for the signed types i32 and i64 (every modelled number fits)
ParseSigned(p) == IF p.num THEN Some(p.n) ELSE None

\* str::parse for u8, u16 and u32: fails on a sign, on text and above max
ParseUnsigned(p, max) ==
    IF p.num /\ 0 <= p.n /\ p.n <= max THEN Some(p.n) ELSE None

\* str::parse::<bool>: exactly "true" or "false"
ParseBool(p) ==
    IF ~p.num /\ p.s = "true" THEN Some(TRUE)
    ELSE IF ~p.num /\ p.s = "false" THEN Some(FALSE)
    ELSE None

\* Result::unwrap_or_default for the integer types
UnwrapOrDefault(r) == IF r.some THEN r.v ELSE 0

\* params.get(name).and_then(|v| v.parse().ok())
OptUnsigned(p, max) == IF p.has THEN ParseUnsigned(p, max) ELSE None
OptBool(p) == IF p.has THEN ParseBool(p) ELSE None
OptString(p) == IF p.has THEN Some(RawString(p)) ELSE None

U8Max == 255
U16Max == 65535

\* str::parse::<u32>: every number the model writes is below 2^31, so only
\* a sign or text makes it fail
ParseU32(p) == IF p.num /\ 0 <= p.n THEN Some(p.n) ELSE None

RequiredParams ==
    << "regionID", "timeRangeStart", "timeRangeEnd", "numberDays", "sortOrder",
       "page", "pageSize", "priceRangeWidth", "minFreeKilometerWidth" >>

\* the first required parameter that is missing, in the handler's order
\* (0 when none is)
FirstMissing(params) ==
    IF \A i \in 1..Len(RequiredParams) : params[RequiredParams[i]].has THEN 0
    ELSE CHOOSE i \in 1..Len(RequiredParams) :
            /\ ~params[RequiredParams[i]].has
            /\ \A j \in 1..(i - 1) : params[RequiredParams[j]].has

\* the local variables get_offers derives from the parameters
ParseQuery(params) ==
    [ region_id |-> UnwrapOrDefault(ParseSigned(params.regionID)),
      time_range_start |-> UnwrapOrDefault(ParseSigned(params.timeRangeStart)),
      time_range_end |-> UnwrapOrDefault(ParseSigned(params.timeRangeEnd)),
      number_days |-> UnwrapOrDefault(ParseSigned(params.numberDays)),
      sort_order |-> RawString(params.sortOrder),
      page |-> U32(UnwrapOrDefault(ParseU32(params.page))),
      page_size |-> U32(UnwrapOrDefault(ParseU32(params.pageSize))),
      price_range_width |->
          U32(UnwrapOrDefault(ParseU32(params.priceRangeWidth))),
      min_free_kilometer_width |->
          U32(UnwrapOrDefault(ParseU32(params.minFreeKilometerWidth))),
      min_number_seats |-> OptUnsigned(params.minNumberSeats, U8Max),
      min_price |-> OptUnsigned(params.minPrice, U16Max),
      max_price |-> OptUnsigned(params.maxPrice, U16Max),
      car_type |-> OptString(params.carType),
      only_vollkasko |-> OptBool(params.onlyVollkasko),
      min_free_kilometer |-> OptUnsigned(params.minFreeKilometer, U16Max) ]

-----------------------------------------------------------------------------
(* query_offers: filter and sort *)

\* the filters with the maximum price taken as an inclusive bound
MatchesInclusiveMax(offer, q) ==
    /\ ~(offer.mostSpecificRegionID # q.region_id)
    /\ ~(offer.startDate > q.time_range_end \/ offer.endDate < q.time_range_start)
    /\ (q.min_number_seats.some => ~(offer.numberSeats < q.min_number_seats.v))
    /\ (q.min_price.some => ~(offer.price < q.min_price.v))
    /\ (q.max_price.some => ~(offer.price > q.max_price.v))
    /\ (q.car_type.some => ~(offer.carType # q.car_type.v))
    /\ (q.only_vollkasko.some => ~(offer.hasVollkasko # q.only_vollkasko.v))
    /\ (q.min_free_kilometer.some => ~(offer.freeKilometers < q.min_free_kilometer.v))

\* the filters of the scan loop: TRUE when no `continue` is taken
Matches(offer, q) ==
    /\ ~(offer.mostSpecificRegionID # q.region_id)
    /\ ~(offer.startDate > q.time_range_end \/ offer.endDate < q.time_range_start)
    /\ (q.min_number_seats.some => ~(offer.numberSeats < q.min_number_seats.v))
    /\ (q.min_price.some => ~(offer.price < q.min_price.v))
    /\ (q.max_price.some => ~(offer.price >= q.max_price.v))
    /\ (q.car_type.some => ~(offer.carType # q.car_type.v))
    /\ (q.only_vollkasko.some => ~(offer.hasVollkasko # q.only_vollkasko.v))
    /\ (q.min_free_kilometer.some => ~(offer.freeKilometers < q.min_free_kilometer.v))

\* the SearchResultOffer pushed for a matching offer
ResultOffer(offer) == [ID |-> offer.ID, data |-> offer.data]

\* the comparator of offers.sort_by: Less when a orders strictly before b
SortLess(a, b, sort_order) ==
    IF sort_order = "price-asc" THEN BytesLess(a.ID, b.ID)
    ELSE IF sort_order = "price-desc" THEN BytesLess(b.ID, a.ID)
    ELSE BytesLess(a.ID, b.ID)

\* slice::sort_by is a stable sort: x goes behind every element it is not
\* strictly before
RECURSIVE InsertSorted(_, _, _)
InsertSorted(x, sorted, sort_order) ==
    IF Len(sorted) = 0 THEN <<x>>
    ELSE IF SortLess(x, sorted[Len(sorted)], sort_order)
         THEN InsertSorted(x, SubSeq(sorted, 1, Len(sorted) - 1), sort_order)
              \o <<sorted[Len(sorted)]>>
         ELSE sorted \o <<x>>

\* no sort at all: the offers stay in the order the scan pushed them
KeepScanOrder(offers, sort_order) == offers

RECURSIVE SortOffers(_, _)
SortOffers(offers, sort_order) ==
    IF Len(offers) = 0 THEN <<>>
    ELSE InsertSorted(offers[Len(offers)],
                      SortOffers(SubSeq(offers, 1, Len(offers) - 1), sort_order),
                      sort_order)

-----------------------------------------------------------------------------
(* get_offers: pagination and aggregation *)

\* offers.get(start as usize..end as usize).unwrap_or(&[]): the slice when
\* start <= end <= len, otherwise the empty slice
SliceGet(offers, start, end) ==
    IF U32Leq(start, end) /\ U32Leq(end, U32(Len(offers)))
    THEN SubSeq(offers, U32ToNat(start) + 1, U32ToNat(end))
    ELSE <<>>

\* start_index = (page - 1) * page_size; end_index = start_index + page_size.
\* With overflow checks (a debug build) an overflowing operation panics;
\* without them (a release build) it wraps.
Paginate(offers, page, page_size, checks) ==
    LET pm1   == U32Sub(page, U32(1))
        start == U32Mul(pm1.v, page_size)
        end   == U32Add(start.v, page_size)
        over  == pm1.overflow \/ start.overflow \/ end.overflow
    IN  [ panic |-> checks /\ over,
          wrapped |-> over,
          start_index |-> start.v,
          end_index |-> end.v,
          offers |-> IF checks /\ over THEN <<>>
                     ELSE SliceGet(offers, start.v, end.v) ]

\* the placeholder aggregations
compute_price_ranges(offers, width) == <<>>
compute_car_type_counts(offers) == [small |-> 0, sports |-> 0, luxury |-> 0, family |-> 0]
compute_seats_count(offers) == <<>>
compute_free_kilometer_ranges(offers, width) == <<>>
compute_vollkasko_count(offers) == [trueCount |-> 0, falseCount |-> 0]

\* the responses of get_offers
NoResponse == [status |-> 0, body |-> "", result |-> <<>>]
BadRequest(msg) == [status |-> 400, body |-> msg, result |-> <<>>]
\* a panic unwinds the handler's task: the client gets no response
Panicked == [status |-> -1, body |-> "panic", result |-> <<>>]
OkResult(r) == [status |-> 200, body |-> "", result |-> <<r>>]

SearchResult(offers, q, checks) ==
    LET pg == Paginate(offers, q.page, q.page_size, checks)
    IN  IF pg.panic THEN Panicked
        ELSE OkResult(
               [ offers |-> pg.offers,
                 priceRanges |-> compute_price_ranges(offers, q.price_range_width),
                 carTypeCounts |-> compute_car_type_counts(offers),
                 seatsCount |-> compute_seats_count(offers),
                 freeKilometerRange |->
                     compute_free_kilometer_ranges(offers, q.min_free_kilometer_width),
                 vollkaskoCount |-> compute_vollkasko_count(offers) ])

-----------------------------------------------------------------------------
(* Requests the model issues *)

Creators == {1, 2}

\* an offer that the base query matches
MkOffer(id, price) ==
    [ ID |-> id, data |-> <<id[16]>>, mostSpecificRegionID |-> 1,
      startDate |-> 10, endDate |-> 20, numberSeats |-> 4, price |-> price,
      carType |-> "small", hasVollkasko |-> TRUE, freeKilometers |-> 100 ]

Prices == {100, 250}

\* the offers the ingestion client sends: one id with two prices (a
\* re-insert), and an id whose first byte is 0xFF
IngestOffers == {MkOffer(IdA, p) : p \in Prices} \cup {MkOffer(IdC, 100)}

SeqsUpTo(S, n) == UNION {[1..m -> S] : m \in 0..n}

\* the JSON body of a create request: with or without the "offers" key
Payloads(offers) ==
    {[has |-> FALSE, offers |-> <<>>]}
        \cup {[has |-> TRUE, offers |-> b] : b \in SeqsUpTo(offers, MaxBatch)}

BaseParams ==
    [ regionID |-> Num(1), timeRangeStart |-> Num(10), timeRangeEnd |-> Num(20),
      numberDays |-> Num(1), sortOrder |-> Txt("price-asc"), page |-> Num(1),
      pageSize |-> Num(2), priceRangeWidth |-> Num(100),
      minFreeKilometerWidth |-> Num(100), minNumberSeats |-> Absent,
      minPrice |-> Absent, maxPrice |-> Absent, carType |-> Absent,
      onlyVollkasko |-> Absent, minFreeKilometer |-> Absent ]

\* the searches issued while writers run
ConcurrentParams ==
    { BaseParams,
      [BaseParams EXCEPT !.pageSize = Num(4)],
      [BaseParams EXCEPT !.sortOrder = Txt("price-desc"), !.pageSize = Num(3)],
      [BaseParams EXCEPT !.page = Absent] }

-----------------------------------------------------------------------------
(* create_offers *)

NoPayload == [has |-> FALSE, offers |-> <<>>]

\* a check of the payload that only looks for the "offers" key
OffersKeyGiven(payload) == payload.has

\* payload.get("offers") is Some(offers) with !offers.is_empty()
OffersGiven(payload) == payload.has /\ Len(payload.offers) # 0

\* the request arrives: an absent or empty list is answered 400 at once
CreateBegin(c, payload) ==
    /\ cpc[c] = "idle"
    /\ cBatch' = [cBatch EXCEPT ![c] = payload]
    /\ cIdx' = [cIdx EXCEPT ![c] = 0]
    /\ cPre' = [cPre EXCEPT ![c] = store]
    /\ IF OffersGiven(payload)
       THEN /\ cpc' = [cpc EXCEPT ![c] = "run"]
            /\ cResp' = cResp
       ELSE /\ cpc' = [cpc EXCEPT ![c] = "done"]
            /\ cResp' = [cResp EXCEPT ![c] = 400]
    /\ UNCHANGED <<store, wiped, searchVars>>

\* insert_offer: db.put(offer.ID.as_bytes(), to_vec(&offer)) succeeds
insert_offer(s, offer) == Put(s, KeyOf(offer), Serialize(offer))

\* one iteration of the loop whose put succeeds; after the last one the
\* handler answers 200
CreatePut(c) ==
    /\ cpc[c] = "run"
    /\ cIdx[c] < Len(cBatch[c].offers)
    /\ store' = insert_offer(store, cBatch[c].offers[cIdx[c] + 1])
    /\ wiped' = FALSE
    /\ cIdx' = [cIdx EXCEPT ![c] = @ + 1]
    /\ IF cIdx[c] + 1 = Len(cBatch[c].offers)
       THEN /\ cpc' = [cpc EXCEPT ![c] = "done"]
            /\ cResp' = [cResp EXCEPT ![c] = 200]
       ELSE UNCHANGED <<cpc, cResp>>
    /\ UNCHANGED <<cBatch, cPre, searchVars>>

\* one iteration of the loop whose put fails: the handler returns 500 and
\* leaves the loop; nothing written so far is taken back
CreateFail(c) ==
    /\ cpc[c] = "run"
    /\ cIdx[c] < Len(cBatch[c].offers)
    /\ cpc' = [cpc EXCEPT ![c] = "done"]
    /\ cResp' = [cResp EXCEPT ![c] = 500]
    /\ UNCHANGED <<store, cBatch, cIdx, cPre, wiped, searchVars>>

\* the response is delivered and the request is over
CreateReturn(c) ==
    /\ cpc[c] = "done"
    /\ cpc' = [cpc EXCEPT ![c] = "idle"]
    /\ cBatch' = [cBatch EXCEPT ![c] = NoPayload]
    /\ cIdx' = [cIdx EXCEPT ![c] = 0]
    /\ cResp' = [cResp EXCEPT ![c] = 0]
    /\ cPre' = [cPre EXCEPT ![c] = EmptyStore]
    /\ UNCHANGED <<store, wiped, searchVars>>

-----------------------------------------------------------------------------
(* cleanup_data *)

\* the bounds handed to delete_range_cf: &b""[..] and &b"\xFF"[..]
WipeFrom == <<>>
WipeTo == <<255>>

\* delete_range_cf succeeds; compact_range_cf changes no contents; 200.
\* (cf_handle("default") is always Some on an open database.)
WipeOk ==
    /\ store' = DeleteRange(store, WipeFrom, WipeTo)
    /\ wiped' = TRUE
    /\ UNCHANGED <<createVars, searchVars>>

\* delete_range_cf fails: 500, nothing deleted
WipeFail ==
    /\ UNCHANGED <<store, wiped, createVars, searchVars>>

-----------------------------------------------------------------------------
(* get_offers and query_offers *)

\* an iterator that reads the live contents at every step (no pinned view)
IterViewLive == store

\* what the iterator of db.iterator(IteratorMode::Start) reads: the contents
\* as of its creation (RocksDB pins an implicit snapshot), in key order
IterView == snap

\* the parsed parameters of the search in flight
Query == ParseQuery(sParams)

IterKeys == SortedKeys(DOMAIN IterView)

\* the parameters are parsed; a missing required one is answered 400 before
\* the store is touched; otherwise the iterator is created
SearchStart(params) ==
    /\ spc = "idle"
    /\ sParams' = params
    /\ sIdx' = 0
    /\ sOffers' = <<>>
    /\ IF FirstMissing(params) # 0
       THEN /\ spc' = "done"
            /\ sResp' = BadRequest("Missing " \o RequiredParams[FirstMissing(params)])
            /\ snap' = EmptyStore
            /\ sAfterWipe' = FALSE
       ELSE /\ spc' = "scan"
            /\ sResp' = NoResponse
            /\ snap' = store
            /\ sAfterWipe' = wiped
    /\ UNCHANGED <<store, wiped, createVars>>

\* a scan step that takes the record it visits out of the store
ScanStepTaking ==
    /\ spc = "scan"
    /\ sIdx < Len(IterKeys)
    /\ LET offer == Deserialize(IterView[IterKeys[sIdx + 1]])
       IN  sOffers' = IF Matches(offer, ParseQuery(sParams))
                      THEN Append(sOffers, ResultOffer(offer))
                      ELSE sOffers
    /\ sIdx' = sIdx + 1
    /\ store' = [k \in DOMAIN store \ {IterKeys[sIdx + 1]} |-> store[k]]
    /\ UNCHANGED <<wiped, createVars, spc, sParams, snap, sAfterWipe, sResp>>

\* one iteration of `for item in iter`
ScanStep ==
    /\ spc = "scan"
    /\ sIdx < Len(IterKeys)
    /\ LET offer == Deserialize(IterView[IterKeys[sIdx + 1]])
       IN  sOffers' = IF Matches(offer, ParseQuery(sParams))
                      THEN Append(sOffers, ResultOffer(offer))
                      ELSE sOffers
    /\ sIdx' = sIdx + 1
    /\ UNCHANGED <<store, wiped, createVars, spc, sParams, snap,
                   sAfterWipe, sResp>>

\* the iterator is exhausted: sort, paginate, aggregate, respond
SearchFinish(checks) ==
    /\ spc = "scan"
    /\ sIdx >= Len(IterKeys)
    /\ sOffers' = SortOffers(sOffers, ParseQuery(sParams).sort_order)
    /\ sResp' = SearchResult(sOffers', ParseQuery(sParams), checks)
    /\ spc' = "done"
    /\ UNCHANGED <<store, wiped, createVars, sParams, snap, sIdx,
                   sAfterWipe>>

\* the scan ends before the iterator is exhausted (item.unwrap() or
\* from_slice(..).unwrap() panics, or the task is dropped): the locals go
\* away and no response is built
SearchAbandon ==
    /\ spc = "scan"
    /\ spc' = "idle"
    /\ sParams' = BaseParams
    /\ snap' = EmptyStore
    /\ sIdx' = 0
    /\ sOffers' = <<>>
    /\ sAfterWipe' = FALSE
    /\ sResp' = NoResponse
    /\ UNCHANGED <<store, wiped, createVars>>

\* the response is delivered and the request is over
SearchReturn ==
    /\ spc = "done"
    /\ spc' = "idle"
    /\ sParams' = BaseParams
    /\ snap' = EmptyStore
    /\ sIdx' = 0
    /\ sOffers' = <<>>
    /\ sAfterWipe' = FALSE
    /\ sResp' = NoResponse
    /\ UNCHANGED <<store, wiped, createVars>>

-----------------------------------------------------------------------------
(* The search engine alone: one search at a time over a stored dataset *)

\* offers that differ from MkOffer(id, 100) in one field, on and off the
\* boundaries of the base query
OfferVariants(id) ==
    LET b == MkOffer(id, 100)
    IN  { b,
          [b EXCEPT !.mostSpecificRegionID = 2],
          [b EXCEPT !.mostSpecificRegionID = 0],
          [b EXCEPT !.startDate = 20, !.endDate = 30],
          [b EXCEPT !.startDate = 21, !.endDate = 30],
          [b EXCEPT !.startDate = 0, !.endDate = 10],
          [b EXCEPT !.startDate = 0, !.endDate = 9],
          [b EXCEPT !.numberSeats = 5],
          [b EXCEPT !.price = 99],
          [b EXCEPT !.price = 250],
          [b EXCEPT !.carType = "luxury"],
          [b EXCEPT !.carType = "suv"],
          [b EXCEPT !.hasVollkasko = FALSE],
          [b EXCEPT !.freeKilometers = 99] }

\* the datasets searched: IdA holds any variant, the other ids a fixed offer,
\* and each of them may be absent
StoredChoices(id) ==
    IF id = IdA THEN OfferVariants(IdA)
    ELSE IF id = IdC THEN {MkOffer(IdC, 250)}
    ELSE {MkOffer(id, 100)}

RECURSIVE StoreOf(_)
StoreOf(offers) ==
    IF offers = {} THEN EmptyStore
    ELSE LET o == CHOOSE x \in offers : TRUE
         IN  insert_offer(StoreOf(offers \ {o}), o)

OneOrNone(id) == {{}} \cup {{o} : o \in StoredChoices(id)}

Datasets ==
    { StoreOf(a \cup b \cup c \cup d) :
        a \in OneOrNone(IdA), b \in OneOrNone(IdB),
        c \in OneOrNone(IdC), d \in OneOrNone(IdD) }

\* searches that vary one filter at a time around the base query, with
\* values on both sides of each boundary and texts that do not parse
FilterParams ==
    LET b == [BaseParams EXCEPT !.pageSize = Num(4)]
    IN  {b}
        \cup {[b EXCEPT !.regionID = v] : v \in {Num(2), Txt("abc")}}
        \cup {[b EXCEPT !.timeRangeStart = Num(21), !.timeRangeEnd = Num(30)],
              [b EXCEPT !.timeRangeStart = Num(0), !.timeRangeEnd = Num(9)]}
        \cup {[b EXCEPT !.minNumberSeats = v] :
                 v \in {Num(4), Num(5), Num(6), Num(256), Txt("four")}}
        \cup {[b EXCEPT !.minPrice = v] : v \in {Num(100), Num(101), Num(65536)}}
        \cup {[b EXCEPT !.maxPrice = v] : v \in {Num(100), Num(101), Num(250), Num(251)}}
        \cup {[b EXCEPT !.carType = v] : v \in {Txt("small"), Txt("suv")}}
        \cup {[b EXCEPT !.onlyVollkasko = v] : v \in {Txt("true"), Txt("false"), Txt("1")}}
        \cup {[b EXCEPT !.minFreeKilometer = v] : v \in {Num(99), Num(100), Num(101)}}
        \cup {[b EXCEPT !.minPrice = Num(100), !.maxPrice = Num(250),
                        !.carType = Txt("small"), !.onlyVollkasko = Txt("true")]}

\* searches that vary the window and the order; 1073741825 = 2^30 + 1, whose
\* window start (page - 1) * 4 is 2^32
PageParams ==
    { [BaseParams EXCEPT !.page = pg, !.pageSize = sz, !.sortOrder = so] :
        pg \in {Num(0), Num(1), Num(2), Num(3), Num(1073741825)},
        sz \in {Num(0), Num(1), Num(2), Num(4), Num(5)},
        so \in {Txt("price-asc"), Txt("price-desc"), Txt("newest")} }

\* searches whose required parameters are missing, do not parse as their
\* type, or are zero where a width or a page size is expected
RequiredEdgeParams ==
    { [BaseParams EXCEPT !.sortOrder = Absent],
      [BaseParams EXCEPT !.regionID = Absent],
      [BaseParams EXCEPT !.minFreeKilometerWidth = Absent],
      [BaseParams EXCEPT !.timeRangeStart = Txt("today")],
      [BaseParams EXCEPT !.numberDays = Txt("two")],
      [BaseParams EXCEPT !.page = Txt("first")],
      [BaseParams EXCEPT !.page = Num(-1)],
      [BaseParams EXCEPT !.pageSize = Txt("all")],
      [BaseParams EXCEPT !.priceRangeWidth = Txt("wide")],
      [BaseParams EXCEPT !.priceRangeWidth = Num(0)],
      [BaseParams EXCEPT !.minFreeKilometerWidth = Num(0)],
      [BaseParams EXCEPT !.priceRangeWidth = Num(50), !.pageSize = Num(4)] }

QueryParams == FilterParams \cup PageParams \cup RequiredEdgeParams

-----------------------------------------------------------------------------
(* Specifications *)

\* no request in flight
NoRequest ==
    /\ cpc = [c \in Creators |-> "idle"]
    /\ cBatch = [c \in Creators |-> NoPayload]
    /\ cIdx = [c \in Creators |-> 0]
    /\ cResp = [c \in Creators |-> 0]
    /\ cPre = [c \in Creators |-> EmptyStore]
    /\ wiped = FALSE
    /\ spc = "idle"
    /\ sParams = BaseParams
    /\ snap = EmptyStore
    /\ sIdx = 0
    /\ sOffers = <<>>
    /\ sAfterWipe = FALSE
    /\ sResp = NoResponse

\* the server after init_db on a fresh database
Init == store = EmptyStore /\ NoRequest

\* one ingestion client, the wipe and one search client, running concurrently
\* (the handlers run on the threads of the tokio runtime); whether integer
\* overflow is checked depends on the build profile, so both are allowed
Next ==
    \/ \E p \in Payloads(IngestOffers) : CreateBegin(1, p)
    \/ CreatePut(1)
    \/ CreateFail(1)
    \/ CreateReturn(1)
    \/ WipeOk
    \/ WipeFail
    \/ \E q \in ConcurrentParams : SearchStart(q)
    \/ ScanStep
    \/ \E checks \in BOOLEAN : SearchFinish(checks)
    \/ SearchAbandon
    \/ SearchReturn

Spec == Init /\ [][Next]_vars

\* the server holding some dataset, no request in flight
QueryInit == store \in Datasets /\ NoRequest

\* one search client on a quiescent store
QueryNext ==
    \/ \E q \in QueryParams : SearchStart(q)
    \/ ScanStep
    \/ \E checks \in BOOLEAN : SearchFinish(checks)
    \/ SearchAbandon
    \/ SearchReturn

QuerySpec == QueryInit /\ [][QueryNext]_vars

\* the offers two ingestion clients send: the same ids, each client with
\* its own price
ClientOffers(c) ==
    IF c = 1 THEN {MkOffer(IdA, 100), MkOffer(IdB, 100)}
    ELSE {MkOffer(IdA, 250), MkOffer(IdB, 250)}

\* two ingestion clients whose requests run concurrently on the threads of
\* the runtime, on a database that starts empty
IngestNext ==
    \/ \E c \in Creators : \E p \in Payloads(ClientOffers(c)) : CreateBegin(c, p)
    \/ \E c \in Creators : CreatePut(c)
    \/ \E c \in Creators : CreateFail(c)
    \/ \E c \in Creators : CreateReturn(c)

IngestSpec == Init /\ [][IngestNext]_vars

-----------------------------------------------------------------------------
(* Properties of ingestion, wipe and concurrent search (under Spec) *)

\* the store holds exactly this offer under its key
Present(s, o) == KeyOf(o) \in DOMAIN s /\ s[KeyOf(o)] = Serialize(o)

\* the last offer of a batch that has the key k
LastWithKey(batch, k) ==
    batch[CHOOSE i \in 1..Len(batch) :
            /\ KeyOf(batch[i]) = k
            /\ \A j \in (i + 1)..Len(batch) : KeyOf(batch[j]) # k]

DistinctIds(batch) ==
    \A i, j \in 1..Len(batch) : i # j => batch[i].ID # batch[j].ID

\* C1: a create request is all-or-nothing. On the step that ends it, if it
\* answers 500 (a storage write failed) the store equals its contents when
\* the request began, and if it answers 200 every offer of the batch is
\* stored (for an id sent twice, the later offer).
C1_AllOrNothing ==
    [][\A c \in Creators :
          (cpc[c] = "run" /\ cpc'[c] = "done") =>
              IF cResp'[c] = 500
              THEN store' = cPre[c]
              ELSE \A i \in 1..Len(cBatch[c].offers) :
                      Present(store', LastWithKey(cBatch[c].offers,
                                                  KeyOf(cBatch[c].offers[i])))]_vars

\* C2: a search never sees part of a batch. For a batch of N >= 2 offers
\* with distinct ids, none of them stored when the request began, the offers
\* of the batch in the view a search scans are none or all of them.
C2_NoPartialBatch ==
    \A c \in Creators :
        LET batch == cBatch[c].offers
            seen  == {i \in 1..Len(batch) : Present(snap, batch[i])}
        IN  ( /\ cpc[c] \in {"run", "done"}
              /\ spc \in {"scan", "done"}
              /\ Len(batch) >= 2
              /\ DistinctIds(batch)
              /\ \A i \in 1..Len(batch) : KeyOf(batch[i]) \notin DOMAIN cPre[c] )
            => (seen = {} \/ seen = 1..Len(batch))

\* the offers of the first n records of a view, in key order, that the
\* scan loop keeps for the query q
ScanOf(view, n, q) ==
    LET keys == SortedKeys(DOMAIN view)
        Keep(o) == Matches(o, q)
        kept == SelectSeq([i \in 1..Min(n, Len(keys)) |-> Deserialize(view[keys[i]])],
                          Keep)
    IN  [i \in 1..Len(kept) |-> ResultOffer(kept[i])]

\* C3: a search works on the store contents as of the start of its scan.
\* The view is the store at the step that starts the scan and does not
\* change afterwards, whatever is written or wiped; and in every state of
\* the search the offers collected so far, the sorted filtered set and the
\* response are those computed from that view alone.
C3_SnapshotIsolation ==
    [][ /\ (spc = "idle" /\ spc' = "scan") => snap' = store
        /\ (spc # "idle" /\ spc' # "idle") => snap' = snap
        /\ spc = "scan" => sOffers = ScanOf(snap, sIdx, Query)
        /\ (spc = "done" /\ FirstMissing(sParams) = 0) =>
              /\ sOffers = SortOffers(ScanOf(snap, Cardinality(DOMAIN snap), Query),
                                      Query.sort_order)
              /\ \E checks \in BOOLEAN : sResp = SearchResult(sOffers, Query, checks)
      ]_vars

\* a search answered from a view taken before a wipe and before a later
\* write: the view is no longer the store, and its offers are returned
C3_Witness ==
    /\ spc = "done"
    /\ sResp.status = 200
    /\ wiped /\ ~sAfterWipe
    /\ IdA \in DOMAIN snap /\ IdA \notin DOMAIN store
    /\ \E i \in 1..Len(sResp.result[1].offers) : sResp.result[1].offers[i].ID = IdA

ZeroAggregates(r) ==
    /\ r.priceRanges = <<>>
    /\ r.carTypeCounts = [small |-> 0, sports |-> 0, luxury |-> 0, family |-> 0]
    /\ r.seatsCount = <<>>
    /\ r.freeKilometerRange = <<>>
    /\ r.vollkaskoCount = [trueCount |-> 0, falseCount |-> 0]

\* C4: after a successful wipe, and until the next ingestion, the store
\* holds no offer, and a search started in that period returns no offer and
\* zero aggregates.
C4_WipeEmptiesStore ==
    /\ wiped => DOMAIN store = {}
    /\ (spc = "done" /\ sAfterWipe /\ sResp.status = 200) =>
          /\ sResp.result[1].offers = <<>>
          /\ sOffers = <<>>
          /\ ZeroAggregates(sResp.result[1])

\* the stored offers that carry a given id
WithId(s, id) == {o \in OffersIn(s) : o.ID = id}

\* C5: upsert. The store never holds two records of one offer id; right
\* after an offer is put, the one record of its id is that offer (so a
\* re-insert with another price replaces the price); and no search collects
\* an id twice.
C5_Upsert ==
    [][ /\ \A k1, k2 \in DOMAIN store' :
              Deserialize(store'[k1]).ID = Deserialize(store'[k2]).ID => k1 = k2
        /\ \A c \in Creators :
              cIdx'[c] = cIdx[c] + 1 =>
                  LET o == cBatch[c].offers[cIdx[c] + 1]
                  IN  WithId(store', o.ID) = {o}
        /\ \A i, j \in 1..Len(sOffers') : sOffers'[i].ID = sOffers'[j].ID => i = j
      ]_vars

\* an id stored with price 100 when the request began has just been put
\* again with price 250, and the store shows the new price
C5_Witness ==
    \E c \in Creators :
        /\ cpc[c] = "done" /\ cResp[c] = 200
        /\ cBatch[c].offers[cIdx[c]] = MkOffer(IdA, 250)
        /\ WithId(cPre[c], IdA) = {MkOffer(IdA, 100)}
        /\ WithId(store, IdA) = {MkOffer(IdA, 250)}

-----------------------------------------------------------------------------
(* Properties of filtering, ordering and pagination (under QuerySpec) *)

\* a search that got past parameter extraction and has answered
Answered == spc = "done" /\ FirstMissing(sParams) = 0

\* the filter as the specification words it, for the query as get_offers
\* hands it to query_offers (a refinement is set when its Option is Some)
Satisfies(O, Q) ==
    /\ O.mostSpecificRegionID = Q.region_id
    /\ O.startDate <= Q.time_range_end
    /\ O.endDate >= Q.time_range_start
    /\ (Q.min_number_seats.some => O.numberSeats >= Q.min_number_seats.v)
    /\ (Q.min_price.some => O.price >= Q.min_price.v)
    /\ (Q.max_price.some => O.price < Q.max_price.v)
    /\ (Q.car_type.some => O.carType = Q.car_type.v)
    /\ (Q.only_vollkasko.some => O.hasVollkasko = Q.only_vollkasko.v)
    /\ (Q.min_free_kilometer.some => O.freeKilometers >= Q.min_free_kilometer.v)

InFiltered(O) == \E i \in 1..Len(sOffers) : sOffers[i] = ResultOffer(O)

PriceOf(r) == (CHOOSE O \in OffersIn(snap) : O.ID = r.ID).price

\* C7: the ordered filtered set is sorted by price, ascending for price-asc
\* and descending for price-desc, equal prices in ascending id order.
C7_SortedByPrice ==
    (Answered /\ Query.sort_order \in {"price-asc", "price-desc"}) =>
        \A i, j \in 1..Len(sOffers) :
            i < j =>
                /\ Query.sort_order = "price-asc" => PriceOf(sOffers[i]) <= PriceOf(sOffers[j])
                /\ Query.sort_order = "price-desc" => PriceOf(sOffers[i]) >= PriceOf(sOffers[j])
                /\ PriceOf(sOffers[i]) = PriceOf(sOffers[j]) =>
                      BytesLess(sOffers[i].ID, sOffers[j].ID)

\* page and pageSize as the numbers the request wrote
PageNat == UnwrapOrDefault(ParseU32(sParams.page))
PageSizeNat == UnwrapOrDefault(ParseU32(sParams.pageSize))

\* the offers at the positions [(page-1)*pageSize, page*pageSize) that exist
\* (page and pageSize are cut at Len + 1, which leaves the window unchanged
\* and keeps the product small)
Window(offers, page, pageSize) ==
    LET n     == Len(offers)
        start == Min(page - 1, n + 1) * Min(pageSize, n + 1)
        end   == Min(start + Min(pageSize, n + 1), n)
    IN  SubSeq(offers, start + 1, end)

\* C8: for page >= 1 and pageSize >= 1 the returned page is the window
\* [(page-1)*pageSize, page*pageSize) of the ordered filtered set, cut at the
\* end of the set.
C8_PageWindow ==
    (Answered /\ PageNat >= 1 /\ PageSizeNat >= 1 /\ sResp.status = 200) =>
        sResp.result[1].offers = Window(sOffers, PageNat, PageSizeNat)

\* C9: a create of N offers with distinct ids into an empty store has
\* answered 200; the search that scans exactly what it left, with criteria
\* that all N offers match, page 1 and pageSize >= N, returns the N offers.
C9_IngestThenSearch ==
    \A c \in Creators :
        LET batch == cBatch[c].offers
            sent  == {batch[i] : i \in 1..Len(batch)}
        IN  ( /\ cpc[c] = "done" /\ cResp[c] = 200
              /\ cPre[c] = EmptyStore
              /\ DistinctIds(batch)
              /\ Answered
              /\ OffersIn(snap) = sent
              /\ \A O \in sent : Matches(O, Query)
              /\ PageNat = 1 /\ PageSizeNat >= Len(batch) )
            => /\ sResp.status = 200
               /\ Len(sResp.result[1].offers) = Len(batch)
               /\ {sResp.result[1].offers[i] : i \in 1..Len(batch)}
                     = {ResultOffer(O) : O \in sent}

\* the window of the request starts at or past the end of the filtered set
StartsBeyond(page, pageSize, n) ==
    page >= 1 /\ Min(page - 1, n + 1) * Min(pageSize, n + 1) >= n

\* C10: for every page and pageSize (page 0 and overflowing products
\* included) the search is answered, its window indices are computed without
\* wrapping, and a window that starts past the end of the filtered set gives
\* an empty page.
C10_BeyondEndIsEmpty ==
    Answered =>
        /\ sResp.status = 200
        /\ ~Paginate(sOffers, Query.page, Query.page_size, FALSE).wrapped
        /\ StartsBeyond(PageNat, PageSizeNat, Len(sOffers)) =>
              sResp.result[1].offers = <<>>

-----------------------------------------------------------------------------
(* Properties of input validation (under QuerySpec) *)

SortOrders == {"price-asc", "price-desc"}

\* C11: a search whose sortOrder is neither price-asc nor price-desc is
\* rejected as a client error: it is never scanned, and its answer is a 400
\* without a result page.
C11_UnknownSortOrderRejected ==
    (spc # "idle" /\ sParams.sortOrder.has
                  /\ RawString(sParams.sortOrder) \notin SortOrders) =>
        /\ spc = "done"
        /\ sResp.status = 400
        /\ sResp.result = <<>>

\* every required numeric parameter that is present parses as its type
RequiredParse(params) ==
    /\ \A n \in {"regionID", "timeRangeStart", "timeRangeEnd", "numberDays"} :
          params[n].has => ParseSigned(params[n]).some
    /\ \A n \in {"page", "pageSize", "priceRangeWidth", "minFreeKilometerWidth"} :
          params[n].has => ParseU32(params[n]).some

\* the search was turned down before any record was read
RejectedUnscanned ==
    /\ spc = "done"
    /\ sResp.status = 400
    /\ sResp.result = <<>>
    /\ sIdx = 0 /\ sOffers = <<>>

\* C12: a search with a required parameter missing, or present with a text
\* that does not parse as its type, is rejected with a client error before
\* the store is scanned (so no unparseable value is ever used as 0).
C12_RequiredParamsValidated ==
    (spc # "idle" /\ (FirstMissing(sParams) # 0 \/ ~RequiredParse(sParams))) =>
        RejectedUnscanned

\* C13: a search that writes pageSize = 0, priceRangeWidth = 0 or
\* minFreeKilometerWidth = 0 is rejected with a client error before the
\* store is touched.
C13_ZeroSizesRejected ==
    ( /\ spc # "idle"
      /\ \/ sParams.pageSize = Num(0)
         \/ sParams.priceRangeWidth = Num(0)
         \/ sParams.minFreeKilometerWidth = Num(0) ) =>
        RejectedUnscanned

-----------------------------------------------------------------------------
(* Properties of an empty ingestion (under Spec) *)

\* C14: a create request whose payload has no offers list, or an empty one,
\* is answered 400 on arrival, and neither that step nor any later step of
\* the request changes the store.
C14_EmptyCreateRejected ==
    [][\A c \in Creators :
          /\ ( /\ cpc[c] = "idle" /\ cpc'[c] # "idle"
               /\ (~cBatch'[c].has \/ cBatch'[c].offers = <<>>) ) =>
                 /\ cpc'[c] = "done"
                 /\ cResp'[c] = 400
                 /\ cIdx'[c] = 0
                 /\ store' = store
          /\ (cpc[c] = "done" /\ cResp[c] = 400 /\ cpc'[c] # cpc[c]) =>
                 /\ cpc'[c] = "idle"
                 /\ store' = store ]_vars

\* a create with an empty offers list has been answered 400 while the store
\* holds offers, and the store is as the request found it
C14_Witness ==
    \E c \in Creators :
        /\ cpc[c] = "done" /\ cResp[c] = 400
        /\ cBatch[c].has /\ cBatch[c].offers = <<>>
        /\ DOMAIN store # {}
        /\ store = cPre[c]

-----------------------------------------------------------------------------
(* Properties of the aggregations (under QuerySpec) *)

\* the stored offers behind the filtered set of the search
Filtered == {O \in OffersIn(snap) : InFiltered(O)}

\* the widths as the numbers the request wrote
PriceWidthNat == UnwrapOrDefault(ParseU32(sParams.priceRangeWidth))
FreeKmWidthNat == UnwrapOrDefault(ParseU32(sParams.minFreeKilometerWidth))

\* the elements of a finite set of numbers in ascending order
Ascending(S) ==
    CHOOSE s \in [1..Cardinality(S) -> S] :
        \A i, j \in 1..Cardinality(S) : i < j => s[i] < s[j]

\* the histogram of the values Val(O) of the offers O in S for width w: the
\* buckets [k*w, (k+1)*w) that hold a value, with their counts, in
\* ascending order of start
HistogramOf(S, Val(_), w) ==
    LET ks == Ascending({Val(O) \div w : O \in S})
    IN  [i \in 1..Len(ks) |->
            [ start |-> ks[i] * w,
              end   |-> (ks[i] + 1) * w,
              count |-> Cardinality({O \in S : Val(O) \div w = ks[i]}) ]]

PriceVal(O) == O.price
FreeKmVal(O) == O.freeKilometers

\* C15: in every answered search with positive widths, the price histogram
\* and the free-kilometers histogram are exactly the non-empty buckets
\* [k*w, (k+1)*w) of the filtered offers' values with their counts, in
\* ascending order (so the counts sum to the size of the filtered set).
C15_Histograms ==
    (Answered /\ sResp.status = 200) =>
        /\ PriceWidthNat > 0 =>
              sResp.result[1].priceRanges
                  = HistogramOf(Filtered, PriceVal, PriceWidthNat)
        /\ FreeKmWidthNat > 0 =>
              sResp.result[1].freeKilometerRange
                  = HistogramOf(Filtered, FreeKmVal, FreeKmWidthNat)

\* the fixed car-type categories
CarTypes == {"small", "sports", "luxury", "family"}

\* C16: in every answered search each of the four car-type counters equals
\* the number of filtered offers of that carType; an offer of any other
\* carType adds to no counter and is in the filtered set when it matches.
C16_CarTypeCounts ==
    (Answered /\ sResp.status = 200) =>
        /\ \A t \in CarTypes :
              sResp.result[1].carTypeCounts[t]
                  = Cardinality({O \in Filtered : O.carType = t})
        /\ \A O \in OffersIn(snap) :
              (O.carType \notin CarTypes /\ Satisfies(O, Query)) => InFiltered(O)

-----------------------------------------------------------------------------
(* Properties of repeated wipes and concurrent ingestion *)

\* the contents a cleanup_data answered 200 leaves of the contents s
Wiped(s) == DeleteRange(s, WipeFrom, WipeTo)

\* C17: wipe is idempotent. From every reachable store, a wipe of an empty
\* store leaves it empty, and two wipes in a row leave what one wipe
\* leaves, which is the empty store.
C17_WipeIdempotent ==
    /\ DOMAIN store = {} => DOMAIN Wiped(store) = {}
    /\ Wiped(Wiped(store)) = Wiped(store)
    /\ DOMAIN Wiped(Wiped(store)) = {}

\* a whole batch applied to the contents s, offer after offer
RECURSIVE ApplyBatch(_, _)
ApplyBatch(s, batch) ==
    IF Len(batch) = 0 THEN s
    ELSE ApplyBatch(insert_offer(s, Head(batch)), Tail(batch))

\* C18: two create requests that began on the same store contents and have
\* both answered 200 leave the contents that applying their batches one
\* after the other, in one of the two orders, leaves.
C18_ConcurrentCreatesSerial ==
    ( /\ cpc[1] = "done" /\ cResp[1] = 200
      /\ cpc[2] = "done" /\ cResp[2] = 200
      /\ cPre[1] = cPre[2] ) =>
        \/ store = ApplyBatch(ApplyBatch(cPre[1], cBatch[1].offers), cBatch[2].offers)
        \/ store = ApplyBatch(ApplyBatch(cPre[1], cBatch[2].offers), cBatch[1].offers)

-----------------------------------------------------------------------------
(* Properties of determinism and of the frame of a search *)

\* every order in which an iteration could yield the keys of a view
IterationOrders(view) ==
    {f \in [1..Cardinality(DOMAIN view) -> DOMAIN view] :
        \A i, j \in DOMAIN f : i # j => f[i] # f[j]}

\* the Vec the scan loop builds when the records come in the given order
ScanInOrder(view, order, q) ==
    LET Keep(o) == Matches(o, q)
        kept == SelectSeq([i \in 1..Len(order) |-> Deserialize(view[order[i]])],
                          Keep)
    IN  [i \in 1..Len(kept) |-> ResultOffer(kept[i])]

\* C19: the result of a search is a function of its parameters and of the
\* store contents, not of the iteration order: whatever order the records
\* of the scanned contents are yielded in, the sorted filtered set is the
\* one this search built and the response is the one it gave (for the
\* overflow behaviour of the build that served it).
C19_DeterministicResults ==
    Answered =>
        \A order \in IterationOrders(snap) :
            LET sorted == SortOffers(ScanInOrder(snap, order, Query),
                                     Query.sort_order)
            IN  /\ sorted = sOffers
                /\ \E checks \in BOOLEAN :
                      sResp = SearchResult(sorted, Query, checks)

\* an answered search over four records of which at least two are on the
\* returned page, in descending order (not the order of the keys)
C19_Witness ==
    /\ Answered
    /\ sResp.status = 200
    /\ Cardinality(DOMAIN snap) = 4
    /\ Query.sort_order = "price-desc"
    /\ Len(sResp.result[1].offers) >= 2

\* C20: a search never changes the stored dataset. Every step of a search
\* request (its arrival, accepted or rejected; each step of its scan; its
\* answer; its end, also when it is abandoned in the middle of the scan)
\* leaves the store, and the ingestion requests in flight, as they were.
C20_SearchReadOnly ==
    [][ searchVars' # searchVars =>
            /\ store' = store
            /\ wiped' = wiped
            /\ createVars' = createVars ]_vars

\* a search in the middle of its scan (where it may be abandoned), with
\* records visited and records to come, over a store that holds offers
C20_Witness ==
    /\ spc = "scan"
    /\ sIdx >= 1 /\ sIdx < Len(IterKeys)
    /\ store = snap
    /\ DOMAIN store # {}

====
